---- MODULE Spec2Model ----
(***************************************************************************)
(* Verification model of the WSDM'21 DGL hands-on tutorial notebooks.      *)
(*                                                                         *)
(*   - train() of the node-classification notebook and the minibatch       *)
(*     training loop of the link-prediction notebook  (Spec)               *)
(*                                                                         *)
(* Accuracies are modelled as the integers 0..AccLevels (a/AccLevels).     *)
(* The model parameters are identified by the number of optimizer steps    *)
(* applied to them (opt_steps): every optimizer step yields new            *)
(* parameters.                                                             *)
(***************************************************************************)
EXTENDS Integers, Sequences, FiniteSets, TLC

(***************************************************************************)
(* Bounds of the model.                                                    *)
(***************************************************************************)
\* accuracies take the values 0/AccLevels .. AccLevels/AccLevels
AccLevels == 2
\* epochs of train() that are explored (the notebook runs range(100))
NumEpochs == 3
\* minibatches the edge data loader yields in one epoch (data dependent)
NumBatches == 1001
\* classes of the node labels (ogbn-arxiv has 40)
NumClasses == 2
\* node features take the values 0..MaxFeat
MaxFeat == 1
\* edges of the graphs the convolution modules are run on
MaxConvEdges == 2
\* nodes and edges of the graphs DotPredictor scores, width of a representation
MaxScoreNodes == 2
MaxScoreEdges == 2
ScoreDim == 2
\* largest number of nodes of a graph or MFG handed to a model's forward
MaxFwdNodes == 4
\* number of nodes of the graph inference() runs on
InferGraphSize == 17
\* batch_size of the data loaders (1024 in the notebooks)
BatchSize == 2
\* nodes of the graph the NodeDataLoader samples from
NodeGraphSize == 6

(***************************************************************************)
(* Program constants.                                                      *)
(***************************************************************************)
\* for epoch in range(1)
NumLPEpochs == 1
\* if (step + 1) % 500 == 0
EvalEvery == 500
\* for i in range(1000) of evaluate()
MaxProbeIters == 1000
\* np.abs(loss - prev_loss) < 1e-4, in units of 1e-5
ConvergeTol == 10
\* dgl.dataloading.negative_sampler.Uniform(5)
NegPerPos == 5
\* num_workers=4 of the data loader of inference()
NumWorkers == 4

AccValues == 0..AccLevels

VARIABLES
    notebook,       \* which notebook runs: "node_classification" | "link_prediction"
    pc,             \* the statement about to execute
    failed_at,      \* the statement that raised, "none" while nothing raised
    iter_log,       \* training statements executed in the current iteration
    opt_steps,      \* optimizer.step() calls so far = version of the parameters
    \* train(g, model)
    e, best_val_acc, best_test_acc, val_acc, test_acc,
    epoch_accs,     \* (val_acc, test_acc) computed in each epoch so far
    \* link-prediction loop
    epoch, step, best_accuracy, valid_acc, lp_test_acc,
    model_pt,       \* contents of 'model.pt': <<>> (no file) or <<parameters>>
    evaluations,    \* (valid_acc, parameters) of each evaluation so far
    \* evaluate(emb, label, train_nids, valid_nids, test_nids)
    ev_pc,          \* the statement of evaluate() about to execute
    ev_i,           \* i of `for i in range(1000)`
    ev_prev_loss, ev_loss,
    ev_steps,       \* opt.step(closure) calls so far
    ev_pred,        \* pred[n].argmax() of the trained classifier, per node
    ev_result,      \* the returned (valid_acc, test_acc), <<>> before the return
    \* one call of each GraphSAGE convolution module on the same inputs
    cv_g,           \* the graph or MFG handed to forward()
    cv_h,           \* the features: [src, dst] tensors
    cv_lin,         \* weight and bias of self.linear
    out_sto,        \* result of the stochastic-only SAGEConv.forward
    out_full,       \* result of the full-graph-only SAGEConv.forward
    out_both,       \* result of SAGEConvForBoth.forward
    cv_hN,          \* h_N that SAGEConv.forward reads after update_all
    \* one epoch over a NodeDataLoader or EdgeDataLoader
    loader,         \* "none" | "node" (NodeDataLoader) | "edge" (EdgeDataLoader)
    ld_pc,          \* "iter": about to fetch a minibatch | "body" | "end" | "done"
    remaining,      \* the items the loader has not yielded yet
    mb_items,       \* the items of the current minibatch, in batch order
    input_nodes, output_nodes, pos_graph, neg_graph, mfgs,
    fw,             \* what Model.forward computed on the current minibatch
    labels,         \* mfgs[-1].dstdata['label'] of the current minibatch
    visits,         \* how many minibatches each item was part of so far
    batch_sizes,    \* the sizes of the minibatches yielded so far, in order
    \* one call of DotPredictor.forward(g, h)
    sc_g,           \* the graph whose edges are scored
    sc_h,           \* the node representations, one integer row per node
    sc_score,       \* the returned scores
    sc_done,        \* whether forward has returned
    \* one forward pass of a two-layer model
    fp_model,       \* "none" | "gcn" | "sage_l4" | "sage_lp"
    fp_graphs,      \* <<g>> for GCN, <<mfgs[0], mfgs[1]>> for Model: [nsrc, ndst]
    fp_pc,          \* the statement of forward about to execute
    fp_cpc,         \* the statement of SAGEConv.forward about to execute
    fp_h,           \* number of rows of h (of x / in_feat before conv1)
    fp_h_dst,       \* number of rows of h_dst
    call_log,       \* the layer and update_all calls issued so far, in order
    \* inference(model, graph, node_features) with 4 data-loader workers
    inf_pc,         \* "idle" | "next": fetching a minibatch | "body" | "returned"
    inf_queues,     \* per worker, the batch indices handed to it and not done
    inf_data_queue, \* the minibatches the workers produced, in completion order
    inf_buffer,     \* the minibatches received before their turn
    inf_send,       \* index of the next batch to hand to a worker
    inf_rcvd,       \* index of the next batch the loader yields
    inf_mb,         \* the minibatch the loop body works on, <<>> if none
    inf_result,     \* result: one tensor per loop iteration so far
    inf_emb,        \* the returned torch.cat(result), <<>> before the return
    inf_reordered   \* whether a minibatch arrived before its turn

loopVars == <<notebook, pc, failed_at, iter_log, opt_steps>>
trainVars == <<e, best_val_acc, best_test_acc, val_acc, test_acc, epoch_accs>>
lpVars == <<epoch, step, best_accuracy, valid_acc, lp_test_acc, model_pt, evaluations>>
evalVars == <<ev_pc, ev_i, ev_prev_loss, ev_loss, ev_steps, ev_pred, ev_result>>
convVars == <<cv_g, cv_h, cv_lin, out_sto, out_full, out_both, cv_hN>>
loaderVars == <<loader, ld_pc, remaining, mb_items, input_nodes, output_nodes,
                pos_graph, neg_graph, mfgs, fw, labels, visits,
                batch_sizes>>
\* the state the training loops do not touch
scoreVars == <<sc_g, sc_h, sc_score, sc_done>>
fwdVars == <<fp_model, fp_graphs, fp_pc, fp_cpc, fp_h, fp_h_dst, call_log>>
inferVars == <<inf_pc, inf_queues, inf_data_queue, inf_buffer, inf_send,
               inf_rcvd, inf_mb, inf_result, inf_emb, inf_reordered>>
nonLoopVars == <<evalVars, convVars, loaderVars, scoreVars,
    fwdVars,
    inferVars>>
\* the state evaluate() does not touch
nonEvalVars == <<loopVars, trainVars, lpVars, convVars, loaderVars, scoreVars,
    fwdVars,
    inferVars>>
\* the state the convolution modules do not touch
nonConvVars == <<loopVars, trainVars, lpVars, evalVars, loaderVars, scoreVars,
    fwdVars,
    inferVars>>
nonLoaderVars == <<loopVars, trainVars, lpVars, evalVars, convVars, scoreVars,
    fwdVars,
    inferVars>>
nonScoreVars == <<loopVars, trainVars, lpVars, evalVars, convVars, loaderVars,
    fwdVars,
    inferVars>>
nonFwdVars == <<loopVars, trainVars, lpVars, evalVars, convVars, loaderVars, scoreVars,
    inferVars>>
nonInferVars == <<loopVars, trainVars, lpVars, evalVars, convVars, loaderVars, scoreVars, fwdVars>>
vars == <<loopVars, trainVars, lpVars, evalVars, convVars, loaderVars,
          scoreVars, fwdVars, inferVars>>

(***************************************************************************)
(* Statement order of the two loop bodies.                                 *)
(***************************************************************************)
TrainBodySwapped ==
    <<"forward", "loss", "save_best", "zero_grad", "opt_step", "backward", "print">>

\* body of `for e in range(100)` in train()
TrainBody ==
    <<"forward", "loss", "save_best", "zero_grad", "backward", "opt_step", "print">>

\* body of `for step, (...) in enumerate(tq)` up to the evaluation test
LPBody ==
    <<"forward", "loss", "zero_grad", "backward", "opt_step", "postfix", "eval_check">>

\* the block under `if (step + 1) % 500 == 0`
LPEvalBlock ==
    <<"eval_mode", "inference", "evaluate", "print_eval", "save_best", "train_mode">>

IndexOf(body, s) == CHOOSE i \in 1..Len(body) : body[i] = s

\* the statement after s in body, `after` when s is the last one
Succ(body, s, after) ==
    IF IndexOf(body, s) < Len(body) THEN body[IndexOf(body, s) + 1] ELSE after

InBody(body, s) == \E i \in 1..Len(body) : body[i] = s

(***************************************************************************)
(* Exceptions: neither loop has a try/except, so a raising statement ends  *)
(* the run.                                                                *)
(***************************************************************************)
AfterFailureRetry(s) == s

AfterFailure(s) == "failed"

\* no training notebook runs
LoopsIdle ==
    /\ notebook = "none"
    /\ pc = "idle"
    /\ failed_at = "none"
    /\ iter_log = <<>>
    /\ opt_steps = 0
    /\ e = -1
    /\ best_val_acc = 0
    /\ best_test_acc = 0
    /\ val_acc = 0
    /\ test_acc = 0
    /\ epoch_accs = <<>>
    /\ epoch = -1
    /\ step = -1
    /\ best_accuracy = 0
    /\ valid_acc = 0
    /\ lp_test_acc = 0
    /\ model_pt = <<>>
    /\ evaluations = <<>>

\* evaluate() is not running
EvalIdle ==
    /\ ev_pc = "idle"
    /\ ev_i = -1
    /\ ev_prev_loss = <<>>
    /\ ev_loss = <<>>
    /\ ev_steps = 0
    /\ ev_pred = <<>>
    /\ ev_result = <<>>

\* one of the two training notebooks starts
LoopsInit ==
    /\ notebook \in {"node_classification", "link_prediction"}
    /\ pc = IF notebook = "node_classification" THEN "for" ELSE "for_epoch"
    /\ failed_at = "none"
    /\ iter_log = <<>>
    /\ opt_steps = 0
    /\ e = -1
    /\ best_val_acc = 0
    /\ best_test_acc = 0
    /\ val_acc = 0
    /\ test_acc = 0
    /\ epoch_accs = <<>>
    /\ epoch = -1
    /\ step = -1
    /\ best_accuracy = 0
    /\ valid_acc = 0
    /\ lp_test_acc = 0
    /\ model_pt = <<>>
    /\ evaluations = <<>>

\* no convolution module is called
ConvIdle ==
    /\ cv_g = <<>>
    /\ cv_h = <<>>
    /\ cv_lin = <<>>
    /\ out_sto = <<>>
    /\ out_full = <<>>
    /\ out_both = <<>>
    /\ cv_hN = <<>>

LoaderIdle ==
    /\ loader = "none"
    /\ ld_pc = "done"
    /\ remaining = {}
    /\ mb_items = <<>>
    /\ input_nodes = <<>>
    /\ output_nodes = <<>>
    /\ pos_graph = <<>>
    /\ neg_graph = <<>>
    /\ mfgs = <<>>
    /\ fw = <<>>
    /\ labels = <<>>
    /\ visits = <<>>
    /\ batch_sizes = <<>>

ScoreIdle ==
    /\ sc_g = <<>>
    /\ sc_h = <<>>
    /\ sc_score = <<>>
    /\ sc_done = FALSE

FwdIdle ==
    /\ fp_model = "none"
    /\ fp_graphs = <<>>
    /\ fp_pc = "done"
    /\ fp_cpc = "none"
    /\ fp_h = 0
    /\ fp_h_dst = 0
    /\ call_log = <<>>

InferIdle ==
    /\ inf_pc = "idle"
    /\ inf_queues = <<>>
    /\ inf_data_queue = <<>>
    /\ inf_buffer = {}
    /\ inf_send = 0
    /\ inf_rcvd = 0
    /\ inf_mb = <<>>
    /\ inf_result = <<>>
    /\ inf_emb = <<>>
    /\ inf_reordered = FALSE

Init == LoopsInit /\ EvalIdle /\ ConvIdle /\ LoaderIdle /\ ScoreIdle /\ FwdIdle /\ InferIdle

(***************************************************************************)
(* train(g, model)                                                         *)
(***************************************************************************)
TrainStmt(s) ==
    /\ notebook = "node_classification"
    /\ pc = s
    /\ pc' = Succ(TrainBody, s, "for")
    /\ UNCHANGED <<notebook, failed_at, lpVars, nonLoopVars>>

\* for e in range(100):
TrainFor ==
    /\ notebook = "node_classification"
    /\ pc = "for"
    /\ IF e + 1 < NumEpochs
         THEN /\ e' = e + 1
              /\ pc' = TrainBody[1]
              /\ iter_log' = <<>>
         ELSE /\ pc' = "done"
              /\ UNCHANGED <<e, iter_log>>
    /\ UNCHANGED <<notebook, failed_at, opt_steps, lpVars, nonLoopVars>>
    /\ UNCHANGED <<best_val_acc, best_test_acc, val_acc, test_acc, epoch_accs>>

\* logits = model(g, features); pred = logits.argmax(1)
TrainForward ==
    /\ TrainStmt("forward")
    /\ iter_log' = Append(iter_log, "forward")
    /\ UNCHANGED <<opt_steps, trainVars>>

\* loss = F.cross_entropy(...); train_acc, val_acc, test_acc = ...
TrainLoss ==
    /\ TrainStmt("loss")
    /\ iter_log' = Append(iter_log, "loss")
    /\ \E v \in AccValues, t \in AccValues :
          /\ val_acc' = v
          /\ test_acc' = t
          /\ epoch_accs' = Append(epoch_accs, [val |-> v, test |-> t])
    /\ UNCHANGED <<opt_steps, e, best_val_acc, best_test_acc>>

\* if best_val_acc < val_acc: best_val_acc = val_acc; best_test_acc = test_acc
TrainSaveBest ==
    /\ TrainStmt("save_best")
    /\ IF best_val_acc < val_acc
         THEN /\ best_val_acc' = val_acc
              /\ best_test_acc' = test_acc
         ELSE UNCHANGED <<best_val_acc, best_test_acc>>
    /\ UNCHANGED <<iter_log, opt_steps, e, val_acc, test_acc, epoch_accs>>

\* optimizer.zero_grad()
TrainZeroGrad ==
    /\ TrainStmt("zero_grad")
    /\ iter_log' = Append(iter_log, "zero_grad")
    /\ UNCHANGED <<opt_steps, trainVars>>

\* loss.backward()
TrainBackward ==
    /\ TrainStmt("backward")
    /\ iter_log' = Append(iter_log, "backward")
    /\ UNCHANGED <<opt_steps, trainVars>>

\* optimizer.step()
TrainOptStep ==
    /\ TrainStmt("opt_step")
    /\ iter_log' = Append(iter_log, "opt_step")
    /\ opt_steps' = opt_steps + 1
    /\ UNCHANGED trainVars

\* if e % 5 == 0: print(...)
TrainPrint ==
    /\ TrainStmt("print")
    /\ UNCHANGED <<iter_log, opt_steps, trainVars>>

\* a statement of the body raises
TrainFail ==
    /\ notebook = "node_classification"
    /\ InBody(TrainBody, pc)
    /\ failed_at = "none"
    /\ failed_at' = pc
    /\ pc' = AfterFailure(pc)
    /\ UNCHANGED <<notebook, iter_log, opt_steps, trainVars, lpVars, nonLoopVars>>

TrainNext ==
    \/ TrainFor
    \/ TrainForward
    \/ TrainLoss
    \/ TrainSaveBest
    \/ TrainZeroGrad
    \/ TrainBackward
    \/ TrainOptStep
    \/ TrainPrint
    \/ TrainFail

(***************************************************************************)
(* Link-prediction training loop                                           *)
(***************************************************************************)
LPStmt(s, body, after) ==
    /\ notebook = "link_prediction"
    /\ pc = s
    /\ pc' = Succ(body, s, after)
    /\ UNCHANGED <<notebook, failed_at, trainVars, nonLoopVars>>

\* for epoch in range(1): with tqdm.tqdm(train_dataloader) as tq:
LPForEpoch ==
    /\ notebook = "link_prediction"
    /\ pc = "for_epoch"
    /\ IF epoch + 1 < NumLPEpochs
         THEN /\ epoch' = epoch + 1
              /\ step' = -1
              /\ pc' = "for_step"
         ELSE /\ pc' = "done"
              /\ UNCHANGED <<epoch, step>>
    /\ UNCHANGED <<notebook, failed_at, iter_log, opt_steps, trainVars, nonLoopVars>>
    /\ UNCHANGED <<best_accuracy, valid_acc, lp_test_acc, model_pt, evaluations>>

\* for step, (input_nodes, pos_graph, neg_graph, mfgs) in enumerate(tq):
LPForStep ==
    /\ notebook = "link_prediction"
    /\ pc = "for_step"
    /\ IF step + 1 < NumBatches
         THEN /\ step' = step + 1
              /\ pc' = LPBody[1]
              /\ iter_log' = <<>>
         ELSE /\ pc' = "for_epoch"
              /\ UNCHANGED <<step, iter_log>>
    /\ UNCHANGED <<notebook, failed_at, opt_steps, trainVars, nonLoopVars>>
    /\ UNCHANGED <<epoch, best_accuracy, valid_acc, lp_test_acc, model_pt, evaluations>>

\* inputs = mfgs[0].srcdata['feat']; outputs = model(mfgs, inputs)
\* pos_score = predictor(pos_graph, outputs); neg_score = predictor(neg_graph, outputs)
LPForward ==
    /\ LPStmt("forward", LPBody, "for_step")
    /\ iter_log' = Append(iter_log, "forward")
    /\ UNCHANGED <<opt_steps, lpVars>>

\* score = ...; label = ...; loss = F.binary_cross_entropy_with_logits(score, label)
LPLoss ==
    /\ LPStmt("loss", LPBody, "for_step")
    /\ iter_log' = Append(iter_log, "loss")
    /\ UNCHANGED <<opt_steps, lpVars>>

\* opt.zero_grad()
LPZeroGrad ==
    /\ LPStmt("zero_grad", LPBody, "for_step")
    /\ iter_log' = Append(iter_log, "zero_grad")
    /\ UNCHANGED <<opt_steps, lpVars>>

\* loss.backward()
LPBackward ==
    /\ LPStmt("backward", LPBody, "for_step")
    /\ iter_log' = Append(iter_log, "backward")
    /\ UNCHANGED <<opt_steps, lpVars>>

\* opt.step()
LPOptStep ==
    /\ LPStmt("opt_step", LPBody, "for_step")
    /\ iter_log' = Append(iter_log, "opt_step")
    /\ opt_steps' = opt_steps + 1
    /\ UNCHANGED lpVars

\* tq.set_postfix({'loss': ...}, refresh=False)
LPPostfix ==
    /\ LPStmt("postfix", LPBody, "for_step")
    /\ UNCHANGED <<iter_log, opt_steps, lpVars>>

IsEvalStep(s) == (s + 1) % EvalEvery = 0

\* if (step + 1) % 500 == 0:
LPEvalCheck ==
    /\ notebook = "link_prediction"
    /\ pc = "eval_check"
    /\ pc' = IF IsEvalStep(step) THEN LPEvalBlock[1] ELSE "for_step"
    /\ UNCHANGED <<notebook, failed_at, iter_log, opt_steps, trainVars, lpVars, nonLoopVars>>

\* model.eval()
LPEvalMode ==
    /\ LPStmt("eval_mode", LPEvalBlock, "for_step")
    /\ UNCHANGED <<iter_log, opt_steps, lpVars>>

\* emb = inference(model, graph, node_features)
LPInference ==
    /\ LPStmt("inference", LPEvalBlock, "for_step")
    /\ UNCHANGED <<iter_log, opt_steps, lpVars>>

\* valid_acc, test_acc = evaluate(emb, node_labels, train_nids, valid_nids, test_nids)
LPEvaluate ==
    /\ LPStmt("evaluate", LPEvalBlock, "for_step")
    /\ \E v \in AccValues, t \in AccValues :
          /\ valid_acc' = v
          /\ lp_test_acc' = t
          /\ evaluations' = Append(evaluations, [acc |-> v, params |-> opt_steps])
    /\ UNCHANGED <<iter_log, opt_steps, epoch, step, best_accuracy, model_pt>>

\* print('Epoch {} Validation Accuracy {} Test Accuracy {}'.format(...))
LPPrintEval ==
    /\ LPStmt("print_eval", LPEvalBlock, "for_step")
    /\ UNCHANGED <<iter_log, opt_steps, lpVars>>

\* if best_accuracy < valid_acc:
\*     best_accuracy = valid_acc; torch.save(model.state_dict(), best_model_path)
LPSaveBest ==
    /\ LPStmt("save_best", LPEvalBlock, "for_step")
    /\ IF best_accuracy < valid_acc
         THEN /\ best_accuracy' = valid_acc
              /\ model_pt' = <<opt_steps>>
         ELSE UNCHANGED <<best_accuracy, model_pt>>
    /\ UNCHANGED <<iter_log, opt_steps, epoch, step, valid_acc, lp_test_acc, evaluations>>

\* model.train()
LPTrainMode ==
    /\ LPStmt("train_mode", LPEvalBlock, "for_step")
    /\ UNCHANGED <<iter_log, opt_steps, lpVars>>

\* the data loader or a statement of the loop raises
LPFail ==
    /\ notebook = "link_prediction"
    /\ pc = "for_step" \/ InBody(LPBody, pc) \/ InBody(LPEvalBlock, pc)
    /\ failed_at = "none"
    /\ failed_at' = pc
    /\ pc' = AfterFailure(pc)
    /\ UNCHANGED <<notebook, iter_log, opt_steps, trainVars, lpVars, nonLoopVars>>

LPNext ==
    \/ LPForEpoch
    \/ LPForStep
    \/ LPForward
    \/ LPLoss
    \/ LPZeroGrad
    \/ LPBackward
    \/ LPOptStep
    \/ LPPostfix
    \/ LPEvalCheck
    \/ LPEvalMode
    \/ LPInference
    \/ LPEvaluate
    \/ LPPrintEval
    \/ LPSaveBest
    \/ LPTrainMode
    \/ LPFail

Next == TrainNext \/ LPNext

(***************************************************************************)
(* Properties of the training loops                                        *)
(***************************************************************************)
IsPrefix(a, b) == Len(a) <= Len(b) /\ \A i \in 1..Len(a) : a[i] = b[i]

\* the training statements of one iteration, in the order of the notebooks
StepOrder == <<"forward", "loss", "zero_grad", "backward", "opt_step">>

\* the evaluations whose validation accuracy is the highest of the run
BestEvaluations ==
    {i \in 1..Len(evaluations) :
        \A j \in 1..Len(evaluations) : evaluations[j].acc <= evaluations[i].acc}

\* C1: when the link-prediction loop has finished, 'model.pt' holds the
\* parameters the model had at an evaluation whose validation accuracy is the
\* highest among all evaluations of the run.
C1_CheckpointIsBest ==
    (notebook = "link_prediction" /\ pc = "done" /\ evaluations # <<>>)
        => \E i \in BestEvaluations : model_pt = <<evaluations[i].params>>

\* the epochs of train() whose validation accuracy is the highest so far
MaxValEpochs ==
    {i \in 1..Len(epoch_accs) :
        \A j \in 1..Len(epoch_accs) : epoch_accs[j].val <= epoch_accs[i].val}

FirstMaxValEpoch == CHOOSE i \in MaxValEpochs : \A j \in MaxValEpochs : i <= j

\* C2: after every epoch of train(), best_val_acc is the maximum validation
\* accuracy seen so far and best_test_acc is the test accuracy of the first
\* epoch that attained that maximum.
C2_BestTracksFirstMax ==
    (notebook = "node_classification" /\ pc = "for" /\ epoch_accs # <<>>)
        => /\ best_val_acc = epoch_accs[FirstMaxValEpoch].val
           /\ best_test_acc = epoch_accs[FirstMaxValEpoch].test

\* an iteration of the running loop has just run to its end
AtLoopHead ==
    \/ notebook = "node_classification" /\ pc = "for" /\ e >= 0
    \/ notebook = "link_prediction" /\ pc = "for_step" /\ step >= 0

IterationsDone ==
    IF notebook = "node_classification" THEN e + 1 ELSE epoch * NumBatches + step + 1

\* C3: in both training loops the statements of an iteration run in the order
\* forward, loss, zero_grad, backward, optimizer step: the statements run so
\* far in an iteration are a prefix of that order, a finished iteration ran
\* all of them, and the optimizer stepped exactly once per finished iteration.
C3_StepOrder ==
    /\ IsPrefix(iter_log, StepOrder)
    /\ AtLoopHead => (iter_log = StepOrder /\ opt_steps = IterationsDone)

\* an iteration of each kind reaches its optimizer step
C3_Witness ==
    /\ notebook = "link_prediction"
    /\ pc = "postfix"
    /\ step = 1
    /\ iter_log = StepOrder
    /\ opt_steps = 2

\* C8: once a statement of a training or evaluation loop has raised, the run
\* has stopped at the failure and nothing executes afterwards: no statement is
\* retried and no later iteration runs.
C8_NoRetryNoRecovery ==
    /\ [](failed_at # "none" => pc = "failed")
    /\ [][failed_at # "none" => UNCHANGED vars]_vars

\* evaluate() raises in the first evaluation of the link-prediction loop
C8_Witness ==
    /\ notebook = "link_prediction"
    /\ failed_at = "evaluate"
    /\ pc = "failed"
    /\ step = EvalEvery - 1

(***************************************************************************)
(* evaluate(emb, label, train_nids, valid_nids, test_nids)                 *)
(*                                                                         *)
(* A loss is a float: a finite value (in units of 1e-5), inf or nan.       *)
(***************************************************************************)
Fin(v) == [kind |-> "fin", v |-> v]
PosInf == [kind |-> "inf", v |-> 0]
NaN == [kind |-> "nan", v |-> 0]

\* the losses compute_loss() may return
LossValues == {Fin(100), Fin(105), Fin(200), NaN}

Abs(x) == IF x < 0 THEN -x ELSE x

\* np.abs(loss - prev_loss) < 1e-4: false whenever an operand is inf or nan
Converged(loss, prev) ==
    /\ loss.kind = "fin"
    /\ prev.kind = "fin"
    /\ Abs(loss.v - prev.v) < ConvergeTol

EvalLoopContinuesOneMore(i) == i + 1 <= MaxProbeIters

\* range(1000) has a next item after i
EvalLoopContinues(i) == i + 1 < MaxProbeIters

\* the node split and the labels handed to evaluate()
train_nids == <<0>>
valid_nids == <<1, 2>>
test_nids == <<3>>
EvalNodes == 0..3
node_labels == [n \in EvalNodes |-> n % NumClasses]

\* number of positions of nids whose prediction equals the label
RECURSIVE NumCorrect(_, _)
NumCorrect(nids, pred) ==
    IF nids = <<>> THEN 0
    ELSE (IF pred[Head(nids)] = node_labels[Head(nids)] THEN 1 ELSE 0)
         + NumCorrect(Tail(nids), pred)

\* sklearn.metrics.accuracy_score(label[nids], pred[nids].argmax(1)), as the
\* fraction <<correct, total>>
AccuracyScore(nids, pred) == <<NumCorrect(nids, pred), Len(nids)>>

EvalResultSwapped(pred) == <<AccuracyScore(test_nids, pred), AccuracyScore(valid_nids, pred)>>

\* return valid_acc, test_acc
EvalResult(pred) == <<AccuracyScore(valid_nids, pred), AccuracyScore(test_nids, pred)>>

\* classifier = nn.Linear(...); opt = torch.optim.LBFGS(...); prev_loss = float('inf')
EvalInit ==
    /\ ev_pc = "for"
    /\ ev_i = -1
    /\ ev_prev_loss = PosInf
    /\ ev_loss = <<>>
    /\ ev_steps = 0
    /\ ev_pred = <<>>
    /\ ev_result = <<>>

\* for i in range(1000):
EvalFor ==
    /\ ev_pc = "for"
    /\ IF EvalLoopContinues(ev_i)
         THEN /\ ev_i' = ev_i + 1
              /\ ev_pc' = "opt_step"
         ELSE /\ ev_pc' = "accuracy"
              /\ UNCHANGED ev_i
    /\ UNCHANGED <<ev_prev_loss, ev_loss, ev_steps, ev_pred, ev_result>>
    /\ UNCHANGED nonEvalVars

\* opt.step(closure)
EvalOptStep ==
    /\ ev_pc = "opt_step"
    /\ ev_steps' = ev_steps + 1
    /\ ev_pc' = "compute_loss"
    /\ UNCHANGED <<ev_i, ev_prev_loss, ev_loss, ev_pred, ev_result>>
    /\ UNCHANGED nonEvalVars

\* loss = compute_loss().item()
EvalComputeLoss ==
    /\ ev_pc = "compute_loss"
    /\ ev_loss' \in LossValues
    /\ ev_pc' = "converged"
    /\ UNCHANGED <<ev_i, ev_prev_loss, ev_steps, ev_pred, ev_result>>
    /\ UNCHANGED nonEvalVars

\* if np.abs(loss - prev_loss) < 1e-4: print(...); break  else: prev_loss = loss
EvalConverged ==
    /\ ev_pc = "converged"
    /\ IF Converged(ev_loss, ev_prev_loss)
         THEN /\ ev_pc' = "accuracy"
              /\ UNCHANGED ev_prev_loss
         ELSE /\ ev_prev_loss' = ev_loss
              /\ ev_pc' = "for"
    /\ UNCHANGED <<ev_i, ev_loss, ev_steps, ev_pred, ev_result>>
    /\ UNCHANGED nonEvalVars

\* pred = classifier(emb.to(device)).cpu(); valid_acc = ...; test_acc = ...
\* return valid_acc, test_acc
EvalAccuracy ==
    /\ ev_pc = "accuracy"
    /\ ev_pred' \in [EvalNodes -> 0..(NumClasses - 1)]
    /\ ev_result' = EvalResult(ev_pred')
    /\ ev_pc' = "returned"
    /\ UNCHANGED <<ev_i, ev_prev_loss, ev_loss, ev_steps>>
    /\ UNCHANGED nonEvalVars

EvalNext ==
    \/ EvalFor
    \/ EvalOptStep
    \/ EvalComputeLoss
    \/ EvalConverged
    \/ EvalAccuracy

\* C6: evaluate() performs at most 1000 LBFGS steps, and it always returns,
\* after at least one step, the pair (accuracy on valid_nids, accuracy on
\* test_nids) of the trained classifier's predictions.
C6_EvaluateTerminates ==
    /\ [](ev_steps <= MaxProbeIters)
    /\ [](ev_pc = "returned" =>
            /\ ev_steps >= 1
            /\ ev_result = <<AccuracyScore(valid_nids, ev_pred),
                             AccuracyScore(test_nids, ev_pred)>>)
    /\ <>(ev_pc = "returned")

\* the loss never converges (nan) and evaluate() returns after all 1000 steps
C6_Witness ==
    /\ ev_pc = "returned"
    /\ ev_steps = MaxProbeIters
    /\ ev_loss = NaN
    /\ ev_result[1] # ev_result[2]

\* evaluate() alone; a sequential function keeps running until it returns
EvalSpecInit == LoopsIdle /\ EvalInit /\ ConvIdle /\ LoaderIdle /\ ScoreIdle /\ FwdIdle /\ InferIdle

SpecEval == EvalSpecInit /\ [][EvalNext]_vars /\ WF_vars(EvalNext)

(***************************************************************************)
(* GraphSAGE convolution modules of the message-passing notebook           *)
(*                                                                         *)
(* Tensor entries are exact rationals <<numerator, denominator>>.  A       *)
(* tensor is a sequence of rows, a row a sequence of entries.  A graph is  *)
(* [block, nsrc, ndst, edges]: an MFG (block) has nsrc source and ndst     *)
(* destination nodes; a homogeneous graph has one node set (nsrc = ndst).  *)
(* Edges are <<u, v>> with u a source and v a destination position.        *)
(***************************************************************************)
RECURSIVE GCD(_, _)
GCD(a, b) == IF b = 0 THEN a ELSE GCD(b, a % b)

Norm(n, d) ==
    LET g == GCD(Abs(n), d) IN IF n = 0 THEN <<0, 1>> ELSE <<n \div g, d \div g>>

RatAdd(x, y) == Norm(x[1] * y[2] + y[1] * x[2], x[2] * y[2])
RatScale(k, x) == Norm(k * x[1], x[2])
RatDiv(x, k) == Norm(x[1], x[2] * k)

ZeroRow(dim) == [c \in 1..dim |-> <<0, 1>>]
RowAdd(a, b) == [c \in 1..Len(a) |-> RatAdd(a[c], b[c])]

RECURSIVE SumRows(_, _)
SumRows(rows, dim) ==
    IF rows = <<>> THEN ZeroRow(dim) ELSE RowAdd(Head(rows), SumRows(Tail(rows), dim))

\* fn.sum('m', 'h_N') over the mailbox of one node
MeanRowsAsSum(rows, dim) == SumRows(rows, dim)

\* fn.mean('m', 'h_N') over the mailbox of one node; a node that received
\* no message gets zeros
MeanRows(rows, dim) ==
    IF rows = <<>> THEN ZeroRow(dim)
    ELSE [c \in 1..dim |-> RatDiv(SumRows(rows, dim)[c], Len(rows))]

\* fn.copy_u('h', 'm'): the messages arriving at destination v, one per
\* incoming edge, each the feature of the edge's source
RECURSIVE Mailbox(_, _, _)
Mailbox(edges, v, h_src) ==
    IF edges = <<>> THEN <<>>
    ELSE (IF Head(edges)[2] = v THEN <<h_src[Head(edges)[1]]>> ELSE <<>>)
         \o Mailbox(Tail(edges), v, h_src)

\* a feature store maps the keys it holds to tensors
EmptyStore == [k \in {} |-> <<>>]
Put(store, key, val) ==
    [k \in (DOMAIN store) \cup {key} |-> IF k = key THEN val ELSE store[k]]

\* the feature stores of g inside `with g.local_scope()`
LocalScope(g) == [src |-> EmptyStore, dst |-> EmptyStore]

\* g.srcdata[key] = val; on a homogeneous graph srcdata and dstdata are
\* aliases of ndata, so the value shows in both
SetSrcData(g, fr, key, val) ==
    IF g.block THEN [fr EXCEPT !.src = Put(fr.src, key, val)]
    ELSE [src |-> Put(fr.src, key, val), dst |-> Put(fr.dst, key, val)]

\* g.dstdata[key] = val
SetDstData(g, fr, key, val) ==
    IF g.block THEN [fr EXCEPT !.dst = Put(fr.dst, key, val)]
    ELSE [src |-> Put(fr.src, key, val), dst |-> Put(fr.dst, key, val)]

Tensor(rows) == [kind |-> "tensor", rows |-> rows]
TypeDict == [kind |-> "dict", rows |-> <<>>]

\* g.dstdata[key]
GetDstData(g, fr, key) == Tensor(fr.dst[key])

\* g.ndata[key]: on a homogeneous graph the tensor of the one node set; on
\* an MFG, whose source and destination nodes are separate node sets, ndata
\* stands for neither dstdata nor srcdata and yields a dictionary keyed by
\* node type instead of a tensor
GetNData(g, fr, key) == IF g.block THEN TypeDict ELSE Tensor(fr.dst[key])

\* g.ndata[key] = val (full-graph module, homogeneous graph)
SetNData(g, fr, key, val) == SetSrcData(g, fr, key, val)

\* g.update_all(fn.copy_u('h', 'm'), fn.mean('m', 'h_N'))
UpdateAll(g, fr) ==
    LET h == fr.src["h"]
        dim == Len(h[1])
        h_N == [v \in 1..g.ndst |-> MeanRows(Mailbox(g.edges, v, h), dim)]
    IN SetDstData(g, fr, "h_N", h_N)

Raised == [raised |-> TRUE, out |-> <<>>]
Returned(t) == [raised |-> FALSE, out |-> t]

RECURSIVE Dot(_, _)
Dot(w, row) ==
    IF w = <<>> THEN <<0, 1>>
    ELSE RatAdd(RatScale(Head(w), Head(row)), Dot(Tail(w), Tail(row)))

\* self.linear(x) of nn.Linear(in_feat * 2, out_feat)
Linear(lin, x) ==
    [r \in 1..Len(x) |->
        [o \in 1..Len(lin.w) |-> RatAdd(Dot(lin.w[o], x[r]), <<lin.b[o], 1>>)]]

\* self.linear(torch.cat([a, b], dim=1)); torch.cat raises unless both are
\* tensors with the same number of rows
CatLinear(lin, a, b) ==
    IF a.kind = "tensor" /\ b.kind = "tensor" /\ Len(a.rows) = Len(b.rows)
      THEN Returned(Linear(lin, [r \in 1..Len(a.rows) |-> a.rows[r] \o b.rows[r]]))
      ELSE Raised

\* SAGEConv.forward(g, (h_src, h_dst)), the module for stochastic training
SAGEConvForward(g, h_src, h_dst, lin) ==
    LET fr1 == SetSrcData(g, LocalScope(g), "h", h_src)
        fr2 == SetDstData(g, fr1, "h", h_dst)
        fr3 == UpdateAll(g, fr2)
        h_N == GetDstData(g, fr3, "h_N")
    IN CatLinear(lin, Tensor(h_dst), h_N)

\* SAGEConv.forward up to `h_N = g.dstdata['h_N']`
SAGEConvMessagePassing(g, h_src, h_dst) ==
    LET fr1 == SetSrcData(g, LocalScope(g), "h", h_src)
        fr2 == SetDstData(g, fr1, "h", h_dst)
        fr3 == UpdateAll(g, fr2)
    IN GetDstData(g, fr3, "h_N")

\* SAGEConv.forward(g, h), the module for full-graph training
SAGEConvFullForward(g, h, lin) ==
    LET fr1 == SetNData(g, LocalScope(g), "h", h)
        fr2 == UpdateAll(g, fr1)
        h_N == GetNData(g, fr2, "h_N")
    IN CatLinear(lin, Tensor(h), h_N)

SAGEConvForBothCatSwapped(g, h, lin) ==
    LET h_src == IF h.tuple THEN h.src ELSE h.t
        h_dst == IF h.tuple THEN h.dst ELSE h.t
        fr1 == SetSrcData(g, LocalScope(g), "h", h_src)
        fr2 == UpdateAll(g, fr1)
        h_N == GetNData(g, fr2, "h_N")
    IN CatLinear(lin, h_N, Tensor(h_dst))

\* SAGEConvForBoth.forward(g, h): h is a pair (h_src, h_dst) or one tensor
SAGEConvForBothForward(g, h, lin) ==
    LET h_src == IF h.tuple THEN h.src ELSE h.t
        h_dst == IF h.tuple THEN h.dst ELSE h.t
        fr1 == SetSrcData(g, LocalScope(g), "h", h_src)
        fr2 == UpdateAll(g, fr1)
        h_N == GetNData(g, fr2, "h_N")
    IN CatLinear(lin, Tensor(h_dst), h_N)

(***************************************************************************)
(* The inputs the convolution modules are run on                           *)
(***************************************************************************)
RECURSIVE SetToSeq(_)
SetToSeq(S) ==
    IF S = {} THEN <<>>
    ELSE LET x == CHOOSE y \in S : TRUE IN <<x>> \o SetToSeq(S \ {x})

FeatValues == 0..MaxFeat

\* tensors with n rows and one integer feature per row
Tensors(n) == [1..n -> {<< <<f, 1>> >> : f \in FeatValues}]

\* (number of source nodes, number of destination nodes) of the MFGs: the
\* source node set is strictly larger than the destination node set
BlockShapes == {<<2, 1>>, <<3, 1>>, <<3, 2>>}
\* number of nodes of the homogeneous graphs
GraphSizes == {1, 2, 3}

EdgeLists(nsrc, ndst) ==
    {SetToSeq(E) : E \in {F \in SUBSET ((1..nsrc) \X (1..ndst)) :
                            Cardinality(F) <= MaxConvEdges}}

ConvGraphs ==
    UNION {{[block |-> TRUE, nsrc |-> sh[1], ndst |-> sh[2], edges |-> es] :
              es \in EdgeLists(sh[1], sh[2])} : sh \in BlockShapes}
    \cup
    UNION {{[block |-> FALSE, nsrc |-> n, ndst |-> n, edges |-> es] :
              es \in EdgeLists(n, n)} : n \in GraphSizes}

\* features for g: a pair (h_src, h_dst) for an MFG, one tensor for a graph
ConvFeatures(g) ==
    IF g.block
      THEN {[tuple |-> TRUE, src |-> a, dst |-> b] :
              a \in Tensors(g.nsrc), b \in Tensors(g.ndst)}
      ELSE {[tuple |-> FALSE, t |-> a] : a \in Tensors(g.nsrc)}

\* nn.Linear(in_feat * 2, out_feat) with in_feat = out_feat = 1
Linears == {[w |-> << <<1, 2>> >>, b |-> <<0>>], [w |-> << <<2, -1>> >>, b |-> <<1>>]}

ConvInit ==
    /\ cv_g \in ConvGraphs
    /\ cv_h \in ConvFeatures(cv_g)
    /\ cv_lin \in Linears
    /\ out_sto = <<>>
    /\ out_full = <<>>
    /\ out_both = <<>>
    /\ cv_hN = <<>>

\* SAGEConv(...)(g, (h_src, h_dst)) of the stochastic-training cell
ConvRunStochastic ==
    /\ cv_h.tuple
    /\ out_sto = <<>>
    /\ out_sto' = SAGEConvForward(cv_g, cv_h.src, cv_h.dst, cv_lin)
    /\ UNCHANGED <<cv_g, cv_h, cv_lin, out_full, out_both, cv_hN>>
    /\ UNCHANGED nonConvVars

\* SAGEConv(...)(g, h) of the full-graph cell
ConvRunFull ==
    /\ ~cv_g.block
    /\ ~cv_h.tuple
    /\ out_full = <<>>
    /\ out_full' = SAGEConvFullForward(cv_g, cv_h.t, cv_lin)
    /\ UNCHANGED <<cv_g, cv_h, cv_lin, out_sto, out_both, cv_hN>>
    /\ UNCHANGED nonConvVars

\* SAGEConvForBoth(...)(g, h)
ConvRunForBoth ==
    /\ out_both = <<>>
    /\ out_both' = SAGEConvForBothForward(cv_g, cv_h, cv_lin)
    /\ UNCHANGED <<cv_g, cv_h, cv_lin, out_sto, out_full, cv_hN>>
    /\ UNCHANGED nonConvVars

\* the message passing of SAGEConv(...)(g, (h_src, h_dst)) on an MFG
ConvRunMessagePassing ==
    /\ cv_g.block
    /\ cv_h.tuple
    /\ cv_hN = <<>>
    /\ cv_hN' = SAGEConvMessagePassing(cv_g, cv_h.src, cv_h.dst)
    /\ UNCHANGED <<cv_g, cv_h, cv_lin, out_sto, out_full, out_both>>
    /\ UNCHANGED nonConvVars

ConvNext ==
    \/ ConvRunMessagePassing
    \/ ConvRunStochastic
    \/ ConvRunFull
    \/ ConvRunForBoth

ConvSpecInit == LoopsIdle /\ EvalIdle /\ ConvInit /\ LoaderIdle /\ ScoreIdle /\ FwdIdle /\ InferIdle

\* the three modules applied to one graph, feature assignment and weights
SpecConv == ConvSpecInit /\ [][ConvNext]_vars

\* C4: on every MFG with more source than destination nodes and every
\* feature pair, SAGEConvForBoth.forward completes and returns what the
\* stochastic-only SAGEConv.forward returns with the same weights.
C4_ForBothMatchesStochastic ==
    (cv_g # <<>> /\ out_sto # <<>> /\ out_both # <<>> /\ cv_g.block
        /\ cv_g.nsrc > cv_g.ndst)
        => (~out_both.raised /\ out_both = out_sto)

\* C5: on every homogeneous graph and every single feature tensor,
\* SAGEConvForBoth.forward returns what the full-graph-only SAGEConv.forward
\* returns with the same weights.
C5_ForBothMatchesFullGraph ==
    (cv_g # <<>> /\ out_full # <<>> /\ out_both # <<>> /\ ~cv_g.block)
        => (~out_both.raised /\ ~out_full.raised /\ out_both = out_full)

\* both modules ran on a graph where a node averages two different features
C5_Witness ==
    /\ cv_g # <<>>
    /\ out_full # <<>>
    /\ out_both # <<>>
    /\ ~cv_g.block
    /\ ~out_both.raised
    /\ \E r \in 1..Len(out_both.out) : out_both.out[r][1][2] = 2

\* the edges of g that enter destination node v
EdgesInto(g, v) == {i \in 1..Len(g.edges) : g.edges[i][2] = v}

\* the sum of integers f[i] over the finite set S
RECURSIVE SumOver(_, _)
SumOver(S, f) ==
    IF S = {} THEN 0
    ELSE LET i == CHOOSE x \in S : TRUE IN f[i] + SumOver(S \ {i}, f)

\* the sum, over the edges entering v, of component c of the source's h
SourceSum(g, h_src, v, c) ==
    SumOver(EdgesInto(g, v),
            [i \in EdgesInto(g, v) |-> h_src[g.edges[i][1]][c][1]])

\* C14: copy_u / mean message passing on an MFG gives every destination
\* node with at least one incoming edge the mean, over its incoming edges,
\* of the source's h; SAGEConv.forward returns linear(concat(h_dst, h_N)),
\* one row per destination node.
C14_MeanAggregation ==
    /\ cv_hN # <<>> =>
        /\ Len(cv_hN.rows) = cv_g.ndst
        /\ \A v \in 1..cv_g.ndst : \A c \in 1..Len(cv_h.src[1]) :
              Cardinality(EdgesInto(cv_g, v)) >= 1 =>
                  cv_hN.rows[v][c][1] * Cardinality(EdgesInto(cv_g, v))
                      = cv_hN.rows[v][c][2] * SourceSum(cv_g, cv_h.src, v, c)
    /\ (cv_hN # <<>> /\ out_sto # <<>>) =>
        /\ ~out_sto.raised
        /\ Len(out_sto.out) = cv_g.ndst
        /\ \A v \in 1..cv_g.ndst : \A o \in 1..Len(cv_lin.w) :
              LET a == cv_h.dst[v][1]
                  m == cv_hN.rows[v][1]
                  y == out_sto.out[v][o]
              IN y[1] * (a[2] * m[2])
                   = y[2] * (cv_lin.w[o][1] * a[1] * m[2]
                             + cv_lin.w[o][2] * m[1] * a[2]
                             + cv_lin.b[o] * a[2] * m[2])

\* a destination node averaged the different features of two sources
C14_Witness ==
    /\ cv_hN # <<>>
    /\ out_sto # <<>>
    /\ \E v \in 1..cv_g.ndst :
        /\ Cardinality(EdgesInto(cv_g, v)) = 2
        /\ cv_hN.rows[v][1] = <<1, 2>>

(***************************************************************************)
(* Data loaders: graph, neighbour sampler, negative sampler.               *)
(***************************************************************************)
\* dgl.dataloading.MultiLayerNeighborSampler([5, 5])
FanoutsWider == <<5, 5>>

\* dgl.dataloading.MultiLayerNeighborSampler([4, 4])
Fanouts == <<4, 4>>

\* dgl.add_reverse_edges(graph): the edges followed by their reverses
AddReverseEdges(edges) ==
    edges \o [i \in 1..Len(edges) |-> <<edges[i][2], edges[i][1]>>]

\* the citation graph of the node-classification notebook: node 0 is cited
\* by every other node, so it has more in-neighbours than the fanout
NodeGraph ==
    [n |-> NodeGraphSize,
     edges |-> AddReverseEdges([i \in 1..(NodeGraphSize - 1) |-> <<i, 0>>])]

\* the citation graph of the link-prediction notebook
EdgeGraph ==
    [n |-> 2, edges |-> AddReverseEdges(<<<<0, 1>>, <<0, 0>>>>)]

\* idx_split['train']
loader_train_nids == {0, 1, 2}

\* torch.arange(graph.number_of_edges())
AllEdgeIds(g) == 0..(Len(g.edges) - 1)

EdgeAt(g, eid) == g.edges[eid + 1]

InEdges(g, v) == {eid \in AllEdgeIds(g) : EdgeAt(g, eid)[2] = v}

Min(a, b) == IF a < b THEN a ELSE b

\* the elements of a finite set of integers in ascending order
RECURSIVE SortedSeq(_)
SortedSeq(S) ==
    IF S = {} THEN <<>>
    ELSE LET m == CHOOSE x \in S : \A y \in S : x <= y
         IN <<m>> \o SortedSeq(S \ {m})

SeqRange(q) == {q[i] : i \in 1..Len(q)}

PosIn(q, x) == CHOOSE i \in 1..Len(q) : q[i] = x

\* the sequences of k distinct elements of S
RECURSIVE Arrangements(_, _)
Arrangements(S, k) ==
    IF k = 0 THEN {<<>>}
    ELSE UNION {{<<x>> \o t : t \in Arrangements(S \ {x}, k - 1)} : x \in S}

\* batches of batch_size - 1 items
NextBatchesOneShort(rem) ==
    Arrangements(rem, Min(BatchSize - 1, Cardinality(rem)))

\* shuffle=True, drop_last=False: the next batch is batch_size of the items
\* not yet yielded, in any order, or all of them when fewer are left
NextBatches(rem) == Arrangements(rem, Min(BatchSize, Cardinality(rem)))

\* sample_neighbors without replacement: fanout of the in-edges of v, or all
\* of them when v has no more than fanout
PickInEdges(g, v, fanout) ==
    IF Cardinality(InEdges(g, v)) <= fanout THEN {InEdges(g, v)}
    ELSE {S \in SUBSET InEdges(g, v) : Cardinality(S) = fanout}

\* the frontiers sample_neighbors can return for the seed nodes
RECURSIVE Frontiers(_, _, _)
Frontiers(g, seeds, fanout) ==
    IF seeds = <<>> THEN {{}}
    ELSE {S \cup R : S \in PickInEdges(g, Head(seeds), fanout),
                     R \in Frontiers(g, Tail(seeds), fanout)}

\* the sources of the edges that are not in `seen`, in order of appearance
RECURSIVE NewSources(_, _, _)
NewSources(g, eids, seen) ==
    IF eids = <<>> THEN <<>>
    ELSE LET u == EdgeAt(g, Head(eids))[1]
         IN IF u \in seen THEN NewSources(g, Tail(eids), seen)
            ELSE <<u>> \o NewSources(g, Tail(eids), seen \cup {u})

\* dgl.to_block(frontier, seed_nodes): the destination nodes are the seeds,
\* the source nodes are the seeds followed by the other neighbours; .src and
\* .dst hold the node IDs (dgl.NID), the edges are positions in them
ToBlock(g, frontier, seeds) ==
    LET eids == SortedSeq(frontier)
        src == seeds \o NewSources(g, eids, SeqRange(seeds))
    IN [src |-> src,
        dst |-> seeds,
        edges |-> [j \in 1..Len(eids) |->
                    <<PosIn(src, EdgeAt(g, eids[j])[1]),
                      PosIn(seeds, EdgeAt(g, eids[j])[2])>>]]

\* BlockSampler.sample_blocks: one MFG per fanout, built from the last layer
\* to the first, each layer seeded with the source nodes of the next
RECURSIVE SampleBlocks(_, _, _)
SampleBlocks(g, seeds, fanouts) ==
    IF fanouts = <<>> THEN {<<>>}
    ELSE LET k == Len(fanouts)
         IN UNION {{rest \o <<ToBlock(g, F, seeds)>> :
                      rest \in SampleBlocks(g, ToBlock(g, F, seeds).src,
                                            SubSeq(fanouts, 1, k - 1))} :
                   F \in Frontiers(g, seeds, fanouts[k])}

\* src.repeat_interleave(k) without the repetition
RepeatInterleaveOnce(q, k) == q

\* src.repeat_interleave(k): every element k times in a row
RepeatInterleave(q, k) ==
    [i \in 1..(k * Len(q)) |-> q[((i - 1) \div k) + 1]]

\* negative_sampler.Uniform(k)(g, eids): for every edge, k pairs of its
\* source node with a node drawn uniformly from the graph (dsts)
UniformNegativeSampler(g, eids, dsts) ==
    LET src == RepeatInterleave(
                   [i \in 1..Len(eids) |-> EdgeAt(g, eids[i])[1]], NegPerPos)
    IN [i \in 1..Len(src) |-> <<src[i], dsts[i]>>]

Endpoints(edges) ==
    {edges[i][1] : i \in 1..Len(edges)} \cup {edges[i][2] : i \in 1..Len(edges)}

Relabel(edges, nodes) ==
    [i \in 1..Len(edges) |->
        <<PosIn(nodes, edges[i][1]), PosIn(nodes, edges[i][2])>>]

\* dgl.compact_graphs([pair_graph, neg_pair_graph]): both graphs keep the
\* nodes that an edge of either graph touches; .nid holds their node IDs
CompactGraphs(pos_edges, neg_edges) ==
    LET nodes == SortedSeq(Endpoints(pos_edges) \cup Endpoints(neg_edges))
    IN [pos |-> [nid |-> nodes, edges |-> Relabel(pos_edges, nodes)],
        neg |-> [nid |-> nodes, edges |-> Relabel(neg_edges, nodes)]]

\* EdgeCollator that seeds the neighbour sampler with the nodes of the
\* positive edges only
EdgeCollatePosSeeds(g, items, dsts) ==
    LET pos_edges == [i \in 1..Len(items) |-> EdgeAt(g, items[i])]
        pair == CompactGraphs(pos_edges, UniformNegativeSampler(g, items, dsts))
    IN {[pos_graph |-> pair.pos, neg_graph |-> pair.neg, mfgs |-> blocks] :
            blocks \in SampleBlocks(g, SortedSeq(Endpoints(pos_edges)), Fanouts)}

\* EdgeCollator with a negative sampler: the minibatches it can return for
\* the items and the drawn negative destinations
EdgeCollate(g, items, dsts) ==
    LET pos_edges == [i \in 1..Len(items) |-> EdgeAt(g, items[i])]
        pair == CompactGraphs(pos_edges, UniformNegativeSampler(g, items, dsts))
    IN {[pos_graph |-> pair.pos, neg_graph |-> pair.neg, mfgs |-> blocks] :
            blocks \in SampleBlocks(g, pair.pos.nid, Fanouts)}

(***************************************************************************)
(* Model.forward, on symbolic rows: a row records how it was computed.     *)
(***************************************************************************)
\* node_features[n]
FeatRow(n) == [op |-> "feat", args |-> <<n>>]

\* graph.ndata['label'][n]
LabelRow(n) == [op |-> "label", args |-> <<n>>]

\* mfgs[-1].dstdata['label']
DstLabels(mfg) == [i \in 1..Len(mfg.dst) |-> LabelRow(mfg.dst[i])]

\* mfgs[0].srcdata['feat']
SrcFeat(mfg) == [i \in 1..Len(mfg.src) |-> FeatRow(mfg.src[i])]

\* the rows of h_src that reach destination node i of the MFG
NeighbourRows(mfg, h_src, i) ==
    LET into == SelectSeq(mfg.edges, LAMBDA ed : ed[2] = i)
    IN [j \in 1..Len(into) |-> h_src[into[j][1]]]

\* dgl.nn.SAGEConv(mfg, (h_src, h_dst)): one row per destination node, from
\* its own row of h_dst and the rows of h_src of its in-neighbours
SAGEConvRows(mfg, h_src, h_dst) ==
    [i \in 1..Len(mfg.dst) |->
        [op |-> "sage", args |-> <<h_dst[i], NeighbourRows(mfg, h_src, i)>>]]

\* F.relu(h)
Relu(h) == [i \in 1..Len(h) |-> [op |-> "relu", args |-> <<h[i]>>]]

\* Model.forward with h_dst taken from the end of the rows
ModelForwardTailSlice(blocks, x) ==
    LET n1 == Len(blocks[1].dst)
        h_dst1 == SubSeq(x, Len(x) - n1 + 1, Len(x))
        h1 == Relu(SAGEConvRows(blocks[1], x, h_dst1))
        n2 == Len(blocks[2].dst)
        h_dst2 == SubSeq(h1, Len(h1) - n2 + 1, Len(h1))
    IN [h_dst1 |-> h_dst1, h_dst2 |-> h_dst2,
        out |-> SAGEConvRows(blocks[2], h1, h_dst2)]

\* Model.forward(mfgs, x)
ModelForward(blocks, x) ==
    LET h_dst1 == SubSeq(x, 1, Len(blocks[1].dst))
        h1 == Relu(SAGEConvRows(blocks[1], x, h_dst1))
        h_dst2 == SubSeq(h1, 1, Len(blocks[2].dst))
    IN [h_dst1 |-> h_dst1, h_dst2 |-> h_dst2,
        out |-> SAGEConvRows(blocks[2], h1, h_dst2)]

(***************************************************************************)
(* One epoch over a data loader.                                           *)
(***************************************************************************)
\* the items a training loader iterates over: train_nids, or every edge ID
LoaderItems(kind) ==
    IF kind = "node" THEN loader_train_nids ELSE AllEdgeIds(EdgeGraph)

\* the visit counts after a minibatch with the given items
Visit(v, items) ==
    [it \in DOMAIN v |->
        v[it] + Cardinality({i \in 1..Len(items) : items[i] = it})]

LoaderInit ==
    /\ loader \in {"node", "edge"}
    /\ ld_pc = "iter"
    /\ remaining = LoaderItems(loader)
    /\ mb_items = <<>>
    /\ input_nodes = <<>>
    /\ output_nodes = <<>>
    /\ pos_graph = <<>>
    /\ neg_graph = <<>>
    /\ mfgs = <<>>
    /\ fw = <<>>
    /\ labels = <<>>
    /\ visits = [it \in LoaderItems(loader) |-> 0]
    /\ batch_sizes = <<>>

\* for step, (input_nodes, output_nodes, mfgs) in enumerate(tq)
NodeLoaderNext ==
    /\ loader = "node"
    /\ ld_pc = "iter"
    /\ remaining # {}
    /\ \E items \in NextBatches(remaining) :
       \E blocks \in SampleBlocks(NodeGraph, items, Fanouts) :
          /\ mb_items' = items
          /\ remaining' = remaining \ SeqRange(items)
          /\ visits' = Visit(visits, items)
          /\ batch_sizes' = Append(batch_sizes, Len(items))
          /\ mfgs' = blocks
          /\ input_nodes' = blocks[1].src
          /\ output_nodes' = blocks[Len(blocks)].dst
    /\ pos_graph' = <<>>
    /\ neg_graph' = <<>>
    /\ fw' = <<>>
    /\ labels' = <<>>
    /\ ld_pc' = "body"
    /\ UNCHANGED <<loader, nonLoaderVars>>

\* for step, (input_nodes, pos_graph, neg_graph, mfgs) in enumerate(tq)
EdgeLoaderNext ==
    /\ loader = "edge"
    /\ ld_pc = "iter"
    /\ remaining # {}
    /\ \E items \in NextBatches(remaining) :
       \E dsts \in [1..(NegPerPos * Len(items)) -> 0..(EdgeGraph.n - 1)] :
       \E mb \in EdgeCollate(EdgeGraph, items, dsts) :
          /\ mb_items' = items
          /\ remaining' = remaining \ SeqRange(items)
          /\ visits' = Visit(visits, items)
          /\ batch_sizes' = Append(batch_sizes, Len(items))
          /\ pos_graph' = mb.pos_graph
          /\ neg_graph' = mb.neg_graph
          /\ mfgs' = mb.mfgs
          /\ input_nodes' = mb.mfgs[1].src
    /\ output_nodes' = <<>>
    /\ fw' = <<>>
    /\ labels' = <<>>
    /\ ld_pc' = "body"
    /\ UNCHANGED <<loader, nonLoaderVars>>

\* inputs = mfgs[0].srcdata['feat']; model(mfgs, inputs)
LoaderForward ==
    /\ ld_pc = "body"
    /\ labels' = IF loader = "node" THEN DstLabels(mfgs[Len(mfgs)]) ELSE <<>>
    /\ fw' = ModelForward(mfgs, SrcFeat(mfgs[1]))
    /\ ld_pc' = "end"
    /\ UNCHANGED <<loader, remaining, mb_items, input_nodes, output_nodes,
                   pos_graph, neg_graph, mfgs, visits, batch_sizes,
                   nonLoaderVars>>

\* the end of the loop body, back to the for statement: the loop variables
\* of the finished iteration are dead, the next iteration rebinds them
\* before any use
LoaderLoopBack ==
    /\ ld_pc = "end"
    /\ ld_pc' = "iter"
    /\ mb_items' = <<>>
    /\ input_nodes' = <<>>
    /\ output_nodes' = <<>>
    /\ pos_graph' = <<>>
    /\ neg_graph' = <<>>
    /\ mfgs' = <<>>
    /\ fw' = <<>>
    /\ labels' = <<>>
    /\ UNCHANGED <<loader, remaining, visits, batch_sizes, nonLoaderVars>>

\* the loader is exhausted: the for loop ends
LoaderStop ==
    /\ loader # "none"
    /\ ld_pc = "iter"
    /\ remaining = {}
    /\ ld_pc' = "done"
    /\ UNCHANGED <<loader, remaining, mb_items, input_nodes, output_nodes,
                   pos_graph, neg_graph, mfgs, fw, labels, visits,
                   batch_sizes, nonLoaderVars>>

LoaderNext ==
    \/ NodeLoaderNext
    \/ EdgeLoaderNext
    \/ LoaderForward
    \/ LoaderLoopBack
    \/ LoaderStop

LoaderSpecInit == LoopsIdle /\ EvalIdle /\ ConvIdle /\ LoaderInit /\ ScoreIdle /\ FwdIdle /\ InferIdle

\* one epoch over either data loader, Model.forward on every minibatch
SpecLoader == LoaderSpecInit /\ [][LoaderNext]_vars

\* the representation conv1 and relu compute for destination node v of an MFG
HiddenOf(mfg, v) ==
    LET i == PosIn(mfg.dst, v)
    IN [op |-> "relu", args |-> <<
          [op |-> "sage",
           args |-> <<FeatRow(v), NeighbourRows(mfg, SrcFeat(mfg), i)>>]>>]

\* C7: in every MFG a loader yields, the node IDs of the first num_dst_nodes
\* source nodes are the node IDs of the destination nodes, in order; so in
\* Model.forward x[:num_dst_nodes] holds the input features of the first
\* MFG's destination nodes and h[:num_dst_nodes] the hidden rows of the
\* second MFG's destination nodes, each in destination order.
C7_DstNodesLeadSrc ==
    /\ mfgs # <<>> =>
        \A l \in 1..Len(mfgs) :
            /\ Len(mfgs[l].dst) <= Len(mfgs[l].src)
            /\ SubSeq(mfgs[l].src, 1, Len(mfgs[l].dst)) = mfgs[l].dst
    /\ fw # <<>> =>
        /\ fw.h_dst1 = [i \in 1..Len(mfgs[1].dst) |-> FeatRow(mfgs[1].dst[i])]
        /\ fw.h_dst2 = [i \in 1..Len(mfgs[2].dst) |->
                            HiddenOf(mfgs[1], mfgs[2].dst[i])]

\* Model.forward ran on MFGs that both have more source than destination nodes
C7_Witness ==
    /\ fw # <<>>
    /\ \A l \in 1..Len(mfgs) : Len(mfgs[l].src) > Len(mfgs[l].dst)

\* C9: every minibatch of the EdgeDataLoader has a negative graph with
\* exactly 5 times the edges of the positive graph and as many nodes.
C9_NegativeGraphShape ==
    (loader = "edge" /\ mfgs # <<>>) =>
        /\ Len(neg_graph.edges) = 5 * Len(pos_graph.edges)
        /\ Len(neg_graph.nid) = Len(pos_graph.nid)

\* a minibatch of two positive edges whose negative edges reach a node that
\* no positive edge touches
C9_Witness ==
    /\ loader = "edge"
    /\ mfgs # <<>>
    /\ Len(pos_graph.edges) = 2
    /\ Len(neg_graph.edges) = 10
    /\ Cardinality(Endpoints(pos_graph.edges)) < Len(pos_graph.nid)

InDegree(mfg, i) ==
    Cardinality({j \in 1..Len(mfg.edges) : mfg.edges[j][2] = i})

\* C10: every minibatch of either loader has exactly 2 MFGs; in each of them
\* every destination node has at most 4 incoming edges, so the MFG has at
\* most 4 * num_dst_nodes edges.
C10_FanoutBound ==
    mfgs # <<>> =>
        /\ Len(mfgs) = 2
        /\ \A l \in 1..Len(mfgs) :
            /\ \A i \in 1..Len(mfgs[l].dst) : InDegree(mfgs[l], i) <= 4
            /\ Len(mfgs[l].edges) <= 4 * Len(mfgs[l].dst)

\* a destination node with more than 4 in-edges in the graph got exactly 4
C10_Witness ==
    /\ mfgs # <<>>
    /\ \E l \in 1..Len(mfgs) : \E i \in 1..Len(mfgs[l].dst) :
        /\ InDegree(mfgs[l], i) = 4
        /\ loader = "node"
        /\ Cardinality(InEdges(NodeGraph, mfgs[l].dst[i])) > 4

CeilDiv(a, b) == (a + b - 1) \div b

\* C11: one pass over a training loader puts every training item in exactly
\* one minibatch, yields exactly ceil(N / batch_size) minibatches, and only
\* the last minibatch may hold fewer than batch_size items.
C11_BatchesPartitionItems ==
    /\ loader # "none" =>
        /\ \A it \in DOMAIN visits : visits[it] <= 1
        /\ \A i \in 1..Len(batch_sizes) :
            /\ batch_sizes[i] >= 1
            /\ batch_sizes[i] <= BatchSize
            /\ i < Len(batch_sizes) => batch_sizes[i] = BatchSize
    /\ (loader # "none" /\ ld_pc = "done") =>
        /\ \A it \in DOMAIN visits : visits[it] = 1
        /\ Len(batch_sizes) =
              CeilDiv(Cardinality(LoaderItems(loader)), BatchSize)

\* a finished pass whose last minibatch is smaller than the ones before it
C11_Witness ==
    /\ loader # "none"
    /\ ld_pc = "done"
    /\ Len(batch_sizes) >= 2
    /\ batch_sizes[Len(batch_sizes)] < BatchSize

\* the row conv2 computes for destination node v of the last MFG
OutputOf(blocks, v) ==
    LET i == PosIn(blocks[2].dst, v)
        into == SelectSeq(blocks[2].edges, LAMBDA ed : ed[2] = i)
    IN [op |-> "sage",
        args |-> <<HiddenOf(blocks[1], v),
                   [j \in 1..Len(into) |->
                       HiddenOf(blocks[1], blocks[2].src[into[j][1]])]>>]

EdgesWithin(g, n) ==
    \A i \in 1..Len(g.edges) : g.edges[i][1] \in 1..n /\ g.edges[i][2] \in 1..n

\* C12: Model.forward returns exactly one row per destination node of the
\* last MFG, the row of that node; in link prediction these are the nodes of
\* pos_graph and neg_graph, so every edge of both graphs has an output row
\* for each endpoint; in node classification there is one label per row,
\* the label of the row's node.
C12_OutputsMatchDownstream ==
    fw # <<>> =>
        LET last == mfgs[Len(mfgs)]
        IN /\ Len(fw.out) = Len(last.dst)
           /\ \A i \in 1..Len(last.dst) : fw.out[i] = OutputOf(mfgs, last.dst[i])
           /\ loader = "edge" =>
                /\ Len(fw.out) = Len(pos_graph.nid)
                /\ Len(fw.out) = Len(neg_graph.nid)
                /\ last.dst = pos_graph.nid
                /\ EdgesWithin(pos_graph, Len(fw.out))
                /\ EdgesWithin(neg_graph, Len(fw.out))
           /\ loader = "node" =>
                /\ Len(labels) = Len(fw.out)
                /\ last.dst = mb_items
                /\ \A i \in 1..Len(labels) : labels[i] = LabelRow(last.dst[i])

\* outputs were computed for a node that only a negative edge touches
C12_Witness ==
    /\ loader = "edge"
    /\ fw # <<>>
    /\ Cardinality(Endpoints(pos_graph.edges)) < Len(fw.out)

(***************************************************************************)
(* DotPredictor                                                            *)
(***************************************************************************)
RECURSIVE IntDot(_, _)
IntDot(a, b) ==
    IF a = <<>> THEN 0 ELSE Head(a) * Head(b) + IntDot(Tail(a), Tail(b))

\* g.apply_edges(fn.u_dot_u): the source's feature with itself
ApplyEdgesUDotU(g, fr) ==
    [ed \in 1..Len(g.edges) |->
        <<IntDot(fr.src["h"][g.edges[ed][1]], fr.src["h"][g.edges[ed][1]])>>]

\* g.apply_edges(fn.u_dot_v('h', 'h', 'score')): for every edge a 1-element
\* vector, the dot product of the source's and the destination's 'h'
ApplyEdgesUDotV(g, fr) ==
    [ed \in 1..Len(g.edges) |->
        <<IntDot(fr.src["h"][g.edges[ed][1]], fr.dst["h"][g.edges[ed][2]])>>]

\* DotPredictor.forward(g, h)
DotPredictorForward(g, h) ==
    LET fr == SetNData(g, LocalScope(g), "h", h)
        score == ApplyEdgesUDotV(g, fr)
    IN [ed \in 1..Len(score) |-> score[ed][1]]

\* edge lists of at most k edges over n nodes, parallel edges included
RECURSIVE ScoreEdgeLists(_, _)
ScoreEdgeLists(n, k) ==
    IF k = 0 THEN {<<>>}
    ELSE ScoreEdgeLists(n, k - 1) \cup
         {Append(es, ed) : es \in {q \in ScoreEdgeLists(n, k - 1) : Len(q) = k - 1},
                           ed \in (1..n) \X (1..n)}

ScoreGraphs ==
    UNION {{[block |-> FALSE, nsrc |-> n, ndst |-> n, edges |-> es] :
              es \in ScoreEdgeLists(n, MaxScoreEdges)} : n \in 1..MaxScoreNodes}

ScoreFeatures(n) == [1..n -> [1..ScoreDim -> {-1, 2}]]

ScoreInit ==
    /\ sc_g \in ScoreGraphs
    /\ sc_h \in ScoreFeatures(sc_g.nsrc)
    /\ sc_score = <<>>
    /\ sc_done = FALSE

\* predictor(g, h)
ScoreRun ==
    /\ ~sc_done
    /\ sc_g # <<>>
    /\ sc_score' = DotPredictorForward(sc_g, sc_h)
    /\ sc_done' = TRUE
    /\ UNCHANGED <<sc_g, sc_h, nonScoreVars>>

ScoreNext == ScoreRun

ScoreSpecInit == LoopsIdle /\ EvalIdle /\ ConvIdle /\ LoaderIdle /\ ScoreInit /\ FwdIdle /\ InferIdle

\* DotPredictor.forward on one graph and one representation tensor
SpecScore == ScoreSpecInit /\ [][ScoreNext]_vars

\* the sum over the components of the products of two rows
RECURSIVE ProductSum(_, _, _)
ProductSum(a, b, c) ==
    IF c = 0 THEN 0 ELSE a[c] * b[c] + ProductSum(a, b, c - 1)

\* C13: DotPredictor.forward returns one score per edge, the dot product of
\* the representations of the edge's endpoints, so an edge and its reverse
\* edge get the same score.
C13_DotPredictorScores ==
    sc_done =>
        /\ Len(sc_score) = Len(sc_g.edges)
        /\ \A ed \in 1..Len(sc_g.edges) :
              sc_score[ed] = ProductSum(sc_h[sc_g.edges[ed][1]],
                                        sc_h[sc_g.edges[ed][2]], ScoreDim)
        /\ \A ed, rv \in 1..Len(sc_g.edges) :
              (sc_g.edges[ed] = <<sc_g.edges[rv][2], sc_g.edges[rv][1]>>)
                  => sc_score[ed] = sc_score[rv]

\* an edge and its reverse between nodes with different representations
C13_Witness ==
    /\ sc_done
    /\ \E ed, rv \in 1..Len(sc_g.edges) :
        /\ sc_g.edges[ed][1] # sc_g.edges[ed][2]
        /\ sc_g.edges[ed] = <<sc_g.edges[rv][2], sc_g.edges[rv][1]>>
        /\ sc_h[sc_g.edges[ed][1]] # sc_h[sc_g.edges[ed][2]]
        /\ sc_score[ed] < 0

(***************************************************************************)
(* The forward pass of the two-layer models, statement by statement.       *)
(***************************************************************************)
\* Model.forward with the ReLU after the second layer
ModelBodyReluLast == <<"slice1", "conv1", "slice2", "conv2", "relu", "return">>

\* GCN.forward
GCNBody == <<"conv1", "relu", "conv2", "return">>

\* Model.forward
ModelBody == <<"slice1", "conv1", "relu", "slice2", "conv2", "return">>

\* SAGEConv.forward of the message-passing notebook
SAGEConvBody == <<"srcdata", "dstdata", "update_all", "h_N", "cat", "linear">>

ForwardBody(model) == IF model = "gcn" THEN GCNBody ELSE ModelBody

\* the position in fp_graphs of the graph a layer is called with: g for both
\* layers of GCN, mfgs[0] for conv1 and mfgs[1] for conv2 of Model
ConvArg(model, stmt) ==
    IF model = "gcn" THEN 1 ELSE IF stmt = "conv1" THEN 1 ELSE 2

FwdModels == {"gcn", "sage_l4", "sage_lp"}

FwdInputs(model) ==
    IF model = "gcn"
      THEN {<<[nsrc |-> n, ndst |-> n]>> : n \in 1..MaxFwdNodes}
      ELSE {q \in {<<[nsrc |-> a, ndst |-> b], [nsrc |-> b, ndst |-> c]>> :
                      a \in 1..MaxFwdNodes, b \in 1..MaxFwdNodes,
                      c \in 1..MaxFwdNodes} :
              q[1].ndst <= q[1].nsrc /\ q[2].ndst <= q[2].nsrc}

FwdInit ==
    /\ fp_model \in FwdModels
    /\ fp_graphs \in FwdInputs(fp_model)
    /\ fp_pc = Head(ForwardBody(fp_model))
    /\ fp_cpc = "none"
    /\ fp_h = fp_graphs[1].nsrc
    /\ fp_h_dst = 0
    /\ call_log = <<>>

FwdAfter(stmt) == Succ(ForwardBody(fp_model), stmt, "done")

\* a layer gets as many rows as its graph has source nodes and, for an MFG,
\* as many destination rows as it has destination nodes
RowsFit(model, g) ==
    /\ fp_h = g.nsrc
    /\ model # "gcn" => fp_h_dst = g.ndst

\* h_dst = x[:mfgs[0].num_dst_nodes()] / h_dst = h[:mfgs[1].num_dst_nodes()]
FwdSlice ==
    /\ fp_model \in {"sage_l4", "sage_lp"}
    /\ fp_pc \in {"slice1", "slice2"}
    /\ fp_h_dst' = Min(fp_h, fp_graphs[IF fp_pc = "slice1" THEN 1 ELSE 2].ndst)
    /\ fp_pc' = FwdAfter(fp_pc)
    /\ UNCHANGED <<fp_model, fp_graphs, fp_cpc, fp_h, call_log, nonFwdVars>>

\* h = self.conv1(...) / h = self.conv2(...) with a library layer
\* (GraphConv of GCN, dgl.nn.SAGEConv of the link-prediction Model)
FwdConvLibrary ==
    /\ fp_model \in {"gcn", "sage_lp"}
    /\ fp_pc \in {"conv1", "conv2"}
    /\ LET k == ConvArg(fp_model, fp_pc)
       IN /\ call_log' = Append(call_log, [op |-> fp_pc, arg |-> k])
          /\ IF RowsFit(fp_model, fp_graphs[k])
               THEN fp_h' = fp_graphs[k].ndst /\ fp_pc' = FwdAfter(fp_pc)
               ELSE fp_h' = fp_h /\ fp_pc' = "raised"
    /\ UNCHANGED <<fp_model, fp_graphs, fp_cpc, fp_h_dst, nonFwdVars>>

\* h = self.conv1(...) / h = self.conv2(...): entering SAGEConv.forward
FwdConvEnter ==
    /\ fp_model = "sage_l4"
    /\ fp_pc \in {"conv1", "conv2"}
    /\ fp_cpc = "none"
    /\ call_log' = Append(call_log, [op |-> fp_pc, arg |-> ConvArg(fp_model, fp_pc)])
    /\ fp_cpc' = Head(SAGEConvBody)
    /\ UNCHANGED <<fp_model, fp_graphs, fp_pc, fp_h, fp_h_dst, nonFwdVars>>

\* one statement of SAGEConv.forward
FwdConvStmt ==
    /\ fp_cpc \notin {"none"}
    /\ fp_pc \in {"conv1", "conv2"}
    /\ LET k == ConvArg(fp_model, fp_pc)
           fits == RowsFit(fp_model, fp_graphs[k])
       IN /\ call_log' = IF fp_cpc = "update_all"
                           THEN Append(call_log, [op |-> "update_all", arg |-> k])
                           ELSE call_log
          /\ IF fp_cpc = "cat" /\ ~fits
               THEN fp_cpc' = "none" /\ fp_pc' = "raised" /\ fp_h' = fp_h
               ELSE /\ fp_cpc' = Succ(SAGEConvBody, fp_cpc, "none")
                    /\ fp_pc' = IF fp_cpc = "linear" THEN FwdAfter(fp_pc) ELSE fp_pc
                    /\ fp_h' = IF fp_cpc = "linear" THEN fp_graphs[k].ndst ELSE fp_h
    /\ UNCHANGED <<fp_model, fp_graphs, fp_h_dst, nonFwdVars>>

\* h = F.relu(h)
FwdRelu ==
    /\ fp_model # "none"
    /\ fp_pc = "relu"
    /\ call_log' = Append(call_log, [op |-> "relu", arg |-> 0])
    /\ fp_pc' = FwdAfter(fp_pc)
    /\ UNCHANGED <<fp_model, fp_graphs, fp_cpc, fp_h, fp_h_dst, nonFwdVars>>

\* return h
FwdReturn ==
    /\ fp_model # "none"
    /\ fp_pc = "return"
    /\ fp_pc' = "done"
    /\ UNCHANGED <<fp_model, fp_graphs, fp_cpc, fp_h, fp_h_dst, call_log,
                   nonFwdVars>>

FwdNext ==
    \/ FwdSlice
    \/ FwdConvLibrary
    \/ FwdConvEnter
    \/ FwdConvStmt
    \/ FwdRelu
    \/ FwdReturn

FwdSpecInit == LoopsIdle /\ EvalIdle /\ ConvIdle /\ LoaderIdle /\ ScoreIdle /\ FwdInit /\ InferIdle

\* one forward pass of GCN or Model
SpecForward == FwdSpecInit /\ [][FwdNext]_vars

\* the calls of a complete forward pass: conv1, ReLU, conv2, with the one
\* update_all of each SAGEConv.forward of the message-passing notebook
ExpectedLog(model) ==
    IF model = "gcn"
      THEN <<[op |-> "conv1", arg |-> 1], [op |-> "relu", arg |-> 0],
             [op |-> "conv2", arg |-> 1]>>
    ELSE IF model = "sage_lp"
      THEN <<[op |-> "conv1", arg |-> 1], [op |-> "relu", arg |-> 0],
             [op |-> "conv2", arg |-> 2]>>
    ELSE <<[op |-> "conv1", arg |-> 1], [op |-> "update_all", arg |-> 1],
           [op |-> "relu", arg |-> 0],
           [op |-> "conv2", arg |-> 2], [op |-> "update_all", arg |-> 2]>>

\* C15: a forward pass of GCN or Model calls conv1 once, then ReLU, then
\* conv2 once, conv1 on mfgs[0] and conv2 on mfgs[1] in the stochastic
\* models, and every SAGEConv.forward call issues exactly one update_all.
C15_TwoLayersInOrder ==
    fp_model # "none" =>
        /\ fp_pc # "raised"
        /\ IsPrefix(call_log, ExpectedLog(fp_model))
        /\ fp_pc = "done" => call_log = ExpectedLog(fp_model)

\* a complete forward pass of the message-passing Model on MFGs that shrink
C15_Witness ==
    /\ fp_model = "sage_l4"
    /\ fp_pc = "done"
    /\ fp_graphs[1].nsrc > fp_graphs[1].ndst
    /\ fp_graphs[2].nsrc > fp_graphs[2].ndst
    /\ Len(call_log) = 5

(***************************************************************************)
(* inference(): a NodeDataLoader over all nodes, shuffle=False, with       *)
(* worker processes that sample the minibatches concurrently.              *)
(***************************************************************************)
\* the graph inference() runs on: a chain of citations, with reverse edges
InferGraph ==
    [n |-> InferGraphSize,
     edges |-> AddReverseEdges([i \in 1..(InferGraphSize - 1) |-> <<i - 1, i>>])]

\* number of batches over torch.arange(graph.number_of_nodes())
NumInferBatches == (InferGraph.n + BatchSize - 1) \div BatchSize

\* shuffle=False, drop_last=False: batch k holds the next batch_size node
\* IDs in ascending order, the last batch the rest
InferBatch(k) ==
    [i \in 1..Min(BatchSize, InferGraph.n - (k - 1) * BatchSize) |->
        (k - 1) * BatchSize + i - 1]

\* the worker that batch k is handed to: round-robin over the workers
WorkerOf(k) == ((k - 1) % NumWorkers) + 1

\* the batches handed out before the first one is yielded: two per worker
Prefetched == Min(2 * NumWorkers, NumInferBatches)

\* a minibatch is yielded as soon as it has been received
InTurnAny(idx, rcvd) == TRUE

\* a minibatch is yielded when its index is the next one to yield
InTurn(idx, rcvd) == idx = rcvd

InferInit ==
    /\ inf_pc = "next"
    /\ inf_queues = [w \in 1..NumWorkers |->
            SelectSeq([k \in 1..Prefetched |-> k], LAMBDA k : WorkerOf(k) = w)]
    /\ inf_data_queue = <<>>
    /\ inf_buffer = {}
    /\ inf_send = Prefetched + 1
    /\ inf_rcvd = 1
    /\ inf_mb = <<>>
    /\ inf_result = <<>>
    /\ inf_emb = <<>>
    /\ inf_reordered = FALSE

\* a worker process takes its next batch of node IDs, samples the MFGs and
\* puts the minibatch on the queue to the main process
InferWorker ==
    /\ inf_pc \in {"next", "body"}
    /\ \E w \in 1..NumWorkers :
        /\ inf_queues[w] # <<>>
        /\ LET k == Head(inf_queues[w])
           IN \E blocks \in SampleBlocks(InferGraph, InferBatch(k), Fanouts) :
                inf_data_queue' = Append(inf_data_queue,
                    [idx |-> k,
                     input_nodes |-> blocks[1].src,
                     output_nodes |-> blocks[Len(blocks)].dst,
                     mfgs |-> blocks])
        /\ inf_queues' = [inf_queues EXCEPT ![w] = Tail(inf_queues[w])]
    /\ UNCHANGED <<inf_pc, inf_buffer, inf_send, inf_rcvd, inf_mb, inf_result,
                   inf_emb, inf_reordered, nonInferVars>>

\* the main process, waiting for the next minibatch, takes one off the queue
InferReceive ==
    /\ inf_pc = "next"
    /\ ~\E mb \in inf_buffer : InTurn(mb.idx, inf_rcvd)
    /\ inf_data_queue # <<>>
    /\ inf_buffer' = inf_buffer \cup {Head(inf_data_queue)}
    /\ inf_data_queue' = Tail(inf_data_queue)
    /\ inf_reordered' = (inf_reordered \/ Head(inf_data_queue).idx # inf_rcvd)
    /\ UNCHANGED <<inf_pc, inf_queues, inf_send, inf_rcvd, inf_mb, inf_result,
                   inf_emb, nonInferVars>>

\* for input_nodes, output_nodes, mfgs in train_dataloader: the loader
\* yields the minibatch whose turn it is and hands the next batch of node
\* IDs, if any, to a worker
InferYield ==
    /\ inf_pc = "next"
    /\ \E mb \in inf_buffer :
        /\ InTurn(mb.idx, inf_rcvd)
        /\ inf_mb' = mb
        /\ inf_buffer' = inf_buffer \ {mb}
    /\ inf_rcvd' = inf_rcvd + 1
    /\ IF inf_send <= NumInferBatches
         THEN /\ inf_queues' = [inf_queues EXCEPT ![WorkerOf(inf_send)] =
                                    Append(@, inf_send)]
              /\ inf_send' = inf_send + 1
         ELSE UNCHANGED <<inf_queues, inf_send>>
    /\ inf_pc' = "body"
    /\ UNCHANGED <<inf_data_queue, inf_result, inf_emb, inf_reordered,
                   nonInferVars>>

\* inputs = mfgs[0].srcdata['feat']; result.append(model(mfgs, inputs))
InferBody ==
    /\ inf_pc = "body"
    /\ inf_result' = Append(inf_result,
            ModelForward(inf_mb.mfgs, SrcFeat(inf_mb.mfgs[1])).out)
    /\ inf_mb' = <<>>
    /\ inf_pc' = "next"
    /\ UNCHANGED <<inf_queues, inf_data_queue, inf_buffer, inf_send, inf_rcvd,
                   inf_emb, inf_reordered, nonInferVars>>

\* torch.cat(tensors): the rows of the tensors, one tensor after the other
RECURSIVE TorchCat(_)
TorchCat(tensors) ==
    IF tensors = <<>> THEN <<>> ELSE Head(tensors) \o TorchCat(Tail(tensors))

\* the loader is exhausted: return torch.cat(result)
InferReturn ==
    /\ inf_pc = "next"
    /\ inf_rcvd > NumInferBatches
    /\ inf_emb' = TorchCat(inf_result)
    /\ inf_pc' = "returned"
    /\ UNCHANGED <<inf_queues, inf_data_queue, inf_buffer, inf_send, inf_rcvd,
                   inf_mb, inf_result, inf_reordered, nonInferVars>>

InferNext ==
    \/ InferWorker
    \/ InferReceive
    \/ InferYield
    \/ InferBody
    \/ InferReturn

InferSpecInit ==
    LoopsIdle /\ EvalIdle /\ ConvIdle /\ LoaderIdle /\ ScoreIdle /\ FwdIdle /\ InferInit

\* one call of inference()
SpecInfer == InferSpecInit /\ [][InferNext]_vars

\* the batch that holds node n
BatchOf(n) == (n \div BatchSize) + 1

\* C16: the outputs of the batches are appended to result in the order of
\* the batches over arange(number_of_nodes), although 4 worker processes
\* produce the minibatches; inference() returns graph.number_of_nodes()
\* rows and row i is the model output for node i.
C16_InferenceInNodeOrder ==
    /\ inf_pc # "idle" =>
        /\ Len(inf_result) <= NumInferBatches
        /\ \A k \in 1..Len(inf_result) :
              \E blocks \in SampleBlocks(InferGraph, InferBatch(k), Fanouts) :
                  inf_result[k] = [j \in 1..Len(InferBatch(k)) |->
                                      OutputOf(blocks, InferBatch(k)[j])]
    /\ inf_pc = "returned" =>
        /\ Len(inf_emb) = InferGraph.n
        /\ \A n \in 0..(InferGraph.n - 1) :
              \E blocks \in SampleBlocks(InferGraph, InferBatch(BatchOf(n)), Fanouts) :
                  inf_emb[n + 1] = OutputOf(blocks, n)

\* inference() returned after a minibatch had arrived before its turn
C16_Witness ==
    /\ inf_pc = "returned"
    /\ inf_reordered
    /\ Len(inf_result) >= 2

Spec == Init /\ [][Next]_vars

====
